---- MODULE Spec2Model ----
(***************************************************************************)
(* State-machine model of the PDF chatbot back end.                        *)
(*                                                                         *)
(* The repository holds two variants of the same Flask application:        *)
(*   src/app.py                 sessions are documents of a MongoDB        *)
(*                              collection and carry a user_id;            *)
(*   src/templates/app safe.py  sessions are JSON files in a directory     *)
(*                              and carry no owner at all.                 *)
(* The variable backend says which variant runs; it is chosen in Init and  *)
(* never changes.  Texts are sequences of one-character strings, so that   *)
(* the event framing (json.dumps) and the way the handler reads its own    *)
(* events back (str.split, json.loads) are computed, not assumed.          *)
(***************************************************************************)
EXTENDS Integers, Sequences, FiniteSets, TLC

VARIABLES
    backend,            \* "mongo" (src/app.py) or "file" (src/templates/app safe.py)
    chats,              \* the Session Store: chat id -> stored session
    nextId,             \* next fresh chat id (ObjectId / uuid4)
    pc,                 \* per request: where its handler / response generator stands
    form,               \* per request: the submitted form
    status,             \* per request: HTTP status of the response (0: none yet)
    chat_id,            \* per request: the handler's local chat_id after resolution
    chat_data,          \* per request: the handler's local chat_data
    messages,           \* per request: the prompt handed to the model
    src,                \* per request: state of the token source
    produced,           \* per request: fragments pulled from the token source so far
    events,             \* per request: events delivered to the caller so far
    full_bot_response,  \* per request: the generator's accumulator
    lastOp,             \* the most recent fetch / delete operation and its response
    envEvents           \* number of environment events so far (see MaxEnvEvents)

vars == <<backend, chats, nextId, pc, form, status, chat_id, chat_data, messages,
          src, produced, events, full_bot_response, lastOp, envEvents>>

(***************************************************************************)
(* Bounds                                                                  *)
(***************************************************************************)
\* Number of sessions that can ever be created.
MaxSessions == 2
\* Number of chunks the token streams deliver, all requests together.
MaxChunks == 2
\* Number of environment events: fetch and delete operations, callers going
\* away, and store writes that fail.
MaxEnvEvents == 1

\* Number of turns a session holds when the prompt assembly is checked on its
\* own (SpecAssemble).
MaxHistory == 2

\* The request slots.  Slots are interchangeable, so r2 is taken only once r1
\* is, and the question of a request is named after its slot.
Requests == {"r1", "r2"}
\* The request slots of SpecThree, which has room for a third request.
Slots == Requests \cup {"r3"}
Users == {"u1", "u2"}
Backends == {"mongo", "file"}
Ids == 1..MaxSessions

\* Absent values.
NoUser == "none"
NoId == 0

(***************************************************************************)
(* Texts                                                                   *)
(***************************************************************************)
Quote == "\""
Backslash == "\\"
Newline == "\n"

\* Text fragments the model backend can deliver: an empty one, one holding a
\* character json.dumps escapes, and one holding the characters "data: ".
Fragments ==
    { <<>>,
      <<"H", Quote>>,
      <<"d", "a", "t", "a", ":", " ">> }

\* str(e) of an upstream failure.
ErrorTexts == { <<"E">> }

QuestionOf(r) ==
    IF r = "r1" THEN <<"q", "1">> ELSE IF r = "r2" THEN <<"q", "2">> ELSE <<"q", "3">>

\* What a request can carry as pdf_file.
Docs == {"absent", "empty", "corrupt", "ok"}

\* Text of the one readable document.
DocText == <<"P">>

Take(s, n) == SubSeq(s, 1, IF n < Len(s) THEN n ELSE Len(s))
Drop(s, n) == SubSeq(s, n + 1, Len(s))

StartsWith(s, p) == Len(s) >= Len(p) /\ SubSeq(s, 1, Len(p)) = p

IsPrefix(s, t) == Len(s) =< Len(t) /\ SubSeq(t, 1, Len(s)) = s

RECURSIVE Concat(_)
Concat(ss) == IF ss = <<>> THEN <<>> ELSE Head(ss) \o Concat(Tail(ss))

(***************************************************************************)
(* Event framing: json.dumps, and the handler's reading of its own chunks  *)
(***************************************************************************)
DataPrefix == <<"d", "a", "t", "a", ":", " ">>

KeyText == <<"t", "e", "x", "t">>
KeyError == <<"e", "r", "r", "o", "r">>

\* The dicts handed to json.dumps, with every key present.
TextEvent(t) == [kind |-> "text", text |-> t, chat_id |-> NoId]
ErrorEvent(m) == [kind |-> "error", text |-> m, chat_id |-> NoId]
EndEvent(id) == [kind |-> "end_of_stream", text |-> <<>>, chat_id |-> id]

\* json.dumps of a string: the characters of a JSON string body.
RECURSIVE Escape(_)
Escape(t) ==
    IF t = <<>> THEN <<>>
    ELSE (CASE Head(t) = Quote -> <<Backslash, Quote>>
            [] Head(t) = Backslash -> <<Backslash, Backslash>>
            [] Head(t) = Newline -> <<Backslash, "n">>
            [] OTHER -> <<Head(t)>>) \o Escape(Tail(t))

\* json.dumps({key: t})
Dumps(key, t) == <<"{", Quote>> \o key \o <<Quote, ":", " ", Quote>> \o Escape(t) \o <<Quote, "}">>

\* f"data: {json.dumps({...})}\n\n"
Frame(key, t) == DataPrefix \o Dumps(key, t) \o <<Newline, Newline>>

\* Index of the first occurrence of sep in s, 0 when there is none.
Find(s, sep) ==
    LET hits == { j \in 1..Len(s) : StartsWith(Drop(s, j - 1), sep) }
    IN  IF hits = {} THEN 0 ELSE CHOOSE j \in hits : \A k \in hits : j =< k

\* str.split(sep)
RECURSIVE Split(_, _)
Split(s, sep) ==
    LET j == Find(s, sep)
    IN  IF j = 0 THEN <<s>>
        ELSE <<SubSeq(s, 1, j - 1)>> \o Split(Drop(s, j + Len(sep) - 1), sep)

\* Reads a JSON string body from position i of s (just after the opening
\* quote) up to its closing quote.
RECURSIVE ScanString(_, _, _)
ScanString(s, i, acc) ==
    IF i > Len(s) THEN [ok |-> FALSE, val |-> acc, next |-> i]
    ELSE IF s[i] = Quote THEN [ok |-> TRUE, val |-> acc, next |-> i + 1]
    ELSE IF s[i] = Backslash
         THEN IF i + 1 > Len(s) THEN [ok |-> FALSE, val |-> acc, next |-> i]
              ELSE ScanString(s, i + 2,
                              Append(acc, IF s[i + 1] = "n" THEN Newline ELSE s[i + 1]))
    ELSE ScanString(s, i + 1, Append(acc, s[i]))

IsBlank(s) == \A i \in 1..Len(s) : s[i] \in {Newline, " "}

\* json.loads of a one-key object of strings, as json.dumps writes it;
\* ok is FALSE where json.loads raises JSONDecodeError.
Loads(s) ==
    LET bad == [ok |-> FALSE, key |-> <<>>, val |-> <<>>]
    IN  IF ~StartsWith(s, <<"{", Quote>>) THEN bad
        ELSE LET k == ScanString(s, 3, <<>>)
             IN  IF ~k.ok \/ ~StartsWith(Drop(s, k.next - 1), <<":", " ", Quote>>) THEN bad
                 ELSE LET v == ScanString(s, k.next + 3, <<>>)
                      IN  IF ~v.ok \/ ~StartsWith(Drop(s, v.next - 1), <<"}">>) THEN bad
                          ELSE IF ~IsBlank(Drop(s, v.next)) THEN bad
                          ELSE [ok |-> TRUE, key |-> k.val, val |-> v.val]

\* chunk.split('data: ')[1] followed by json.loads, as the response
\* generator does with each chunk it has forwarded.
ReadChunk(chunk) ==
    LET pieces == Split(chunk, DataPrefix)
    IN  IF Len(pieces) < 2 THEN [exc |-> "IndexError", key |-> <<>>, val |-> <<>>]
        ELSE LET d == Loads(pieces[2])
             IN  IF ~d.ok THEN [exc |-> "JSONDecodeError", key |-> <<>>, val |-> <<>>]
                 ELSE [exc |-> "none", key |-> d.key, val |-> d.val]

(***************************************************************************)
(* Helpers of the handlers                                                 *)
(***************************************************************************)
\* Title lengths: user_question[:40] in app.py, user_question[:30] in app safe.py.
TitleLenMongo == 40
TitleLenFile == 30

Title(b, q) == Take(q, IF b = "mongo" THEN TitleLenMongo ELSE TitleLenFile) \o <<".", ".", ".">>

\* A stored session.  The file variant stores no owner: user_id is NoUser there.
NewChat(b, u, q, text) ==
    [user_id |-> IF b = "mongo" THEN u ELSE NoUser,
     title |-> Title(b, q),
     pdf_text |-> text,
     history |-> <<>>]

NoChat == [user_id |-> NoUser, title |-> <<>>, pdf_text |-> <<>>, history |-> <<>>]

Turn(q, a) == [user |-> q, bot_markdown |-> a]

\* extract_pdf_text_from_path / extract_pdf_text: the text, or None when
\* fitz cannot open the document.
ExtractPdfTextLenient(doc) ==
    IF doc = "ok" THEN [ok |-> TRUE, text |-> DocText] ELSE [ok |-> TRUE, text |-> <<>>]

ExtractPdfText(doc) ==
    IF doc = "ok" THEN [ok |-> TRUE, text |-> DocText] ELSE [ok |-> FALSE, text |-> <<>>]

DocHeader ==
    <<"D", "O", "C", "U", "M", "E", "N", "T", " ", "T", "E", "X", "T", ":",
      Newline, "-", "-", "-", Newline>>
DocFooter == <<Newline, "-", "-", "-">>

\* A prompt that carries only the most recent turn.
HistoryMessagesLastOnly(h) ==
    IF h = <<>> THEN <<>>
    ELSE <<[role |-> "user", parts |-> h[Len(h)].user],
           [role |-> "model", parts |-> h[Len(h)].bot_markdown]>>

RECURSIVE HistoryMessages(_)
HistoryMessages(h) ==
    IF h = <<>> THEN <<>>
    ELSE <<[role |-> "user", parts |-> Head(h).user],
           [role |-> "model", parts |-> Head(h).bot_markdown]>> \o HistoryMessages(Tail(h))

\* The messages list get_gemini_response_stream builds.
Assemble(pdf_text, chat_history, user_question) ==
    <<[role |-> "user", parts |-> DocHeader \o pdf_text \o DocFooter]>>
    \o HistoryMessages(chat_history)
    \o <<[role |-> "user", parts |-> user_question]>>

\* The store without session id.
Without(store, ids) == [i \in DOMAIN store \ ids |-> store[i]]

\* The store with session id set to c.
With(store, id, c) == [i \in DOMAIN store \cup {id} |-> IF i = id THEN c ELSE store[i]]

\* chats_collection.find_one({"_id": ..., "user_id": ...}) in app.py;
\* os.path.exists(filepath) in app safe.py, which looks at no owner.
Resolves(b, store, id, u) ==
    /\ id \in DOMAIN store
    /\ b = "mongo" => store[id].user_id = u

\* A commit that writes the turn and loses the document text.
CommitStoreWithoutText(b, store, id, local, turn) ==
    IF b = "mongo"
    THEN IF id \in DOMAIN store
         THEN With(store, id, [store[id] EXCEPT !.history = Append(@, turn), !.pdf_text = <<>>])
         ELSE store
    ELSE With(store, id, [local EXCEPT !.history = Append(@, turn), !.pdf_text = <<>>])

\* A commit that writes the turn as the whole history.
CommitStoreFresh(b, store, id, local, turn) ==
    IF b = "mongo"
    THEN IF id \in DOMAIN store
         THEN With(store, id, [store[id] EXCEPT !.history = <<turn>>])
         ELSE store
    ELSE With(store, id, [local EXCEPT !.history = <<turn>>])

\* What the commit writes.  app.py: update_one with $push on the stored
\* document, which matches nothing when the document is gone.  app safe.py:
\* the whole local chat_data, with the turn appended, written over the file.
CommitStore(b, store, id, local, turn) ==
    IF b = "mongo"
    THEN IF id \in DOMAIN store
         THEN With(store, id, [store[id] EXCEPT !.history = Append(@, turn)])
         ELSE store
    ELSE With(store, id, [local EXCEPT !.history = Append(@, turn)])

\* What the generator adds to full_bot_response for a chunk it has read.
Accumulate(acc, read) ==
    IF read.exc = "none" /\ read.key = KeyText THEN acc \o read.val ELSE acc

\* Whether the chunk just read ends the forwarding loop.  In app safe.py the
\* try block encloses the whole loop, so an IndexError or JSONDecodeError
\* leaves it; in app.py the try block is inside the loop body.
LeavesLoop(b, read) == b = "file" /\ read.exc # "none"

(***************************************************************************)
(* Initial state                                                           *)
(***************************************************************************)
NoForm == [user_id |-> NoUser, chat_id |-> NoId, question |-> <<>>, pdf_file |-> "absent"]
NoOp == [op |-> "none", caller |-> NoUser, chat_id |-> NoId, status |-> 0, body |-> NoChat]

Init ==
    /\ backend \in Backends
    /\ chats = <<>>
    /\ nextId = 1
    /\ pc = [r \in Requests |-> "idle"]
    /\ form = [r \in Requests |-> NoForm]
    /\ status = [r \in Requests |-> 0]
    /\ chat_id = [r \in Requests |-> NoId]
    /\ chat_data = [r \in Requests |-> NoChat]
    /\ messages = [r \in Requests |-> <<>>]
    /\ src = [r \in Requests |-> "closed"]
    /\ produced = [r \in Requests |-> <<>>]
    /\ events = [r \in Requests |-> <<>>]
    /\ full_bot_response = [r \in Requests |-> <<>>]
    /\ lastOp = NoOp
    /\ envEvents = 0

(***************************************************************************)
(* POST /api/chat: handle_chat up to the return of the Response            *)
(***************************************************************************)
\* The status handle_chat answers with before any streaming, 200 when it
\* returns the streaming Response.
ChatStatus(b, store, f) ==
    IF b = "mongo" /\ f.user_id = NoUser THEN 401
    ELSE IF f.question = <<>> THEN 400
    ELSE IF f.chat_id = NoId
         THEN IF f.pdf_file = "absent" THEN 400
              ELSE IF b = "file" /\ f.pdf_file = "empty" THEN 400
              ELSE IF ~ExtractPdfText(f.pdf_file).ok THEN 500
              ELSE 200
         ELSE IF ~Resolves(b, store, f.chat_id, f.user_id) THEN 404
              ELSE 200

Before(r1, r2) == <<r1, r2>> \in {<<"r1", "r2">>, <<"r1", "r3">>, <<"r2", "r3">>}

HandleChat(r, f) ==
    /\ pc[r] = "idle"
    /\ \A r2 \in DOMAIN pc : Before(r2, r) => pc[r2] # "idle"
    /\ form' = [form EXCEPT ![r] = f]
    /\ LET st == ChatStatus(backend, chats, f)
       IN  /\ status' = [status EXCEPT ![r] = st]
           /\ IF st # 200
              THEN /\ pc' = [pc EXCEPT ![r] = "rejected"]
                   /\ UNCHANGED <<chats, nextId, chat_id, chat_data>>
              ELSE IF f.chat_id = NoId
              THEN LET c == NewChat(backend, f.user_id, f.question,
                                    ExtractPdfText(f.pdf_file).text)
                   IN  /\ nextId =< MaxSessions
                       /\ chats' = With(chats, nextId, c)
                       /\ nextId' = nextId + 1
                       /\ chat_id' = [chat_id EXCEPT ![r] = nextId]
                       /\ chat_data' = [chat_data EXCEPT ![r] = c]
                       /\ pc' = [pc EXCEPT ![r] = "ready"]
              ELSE /\ chat_id' = [chat_id EXCEPT ![r] = f.chat_id]
                   /\ chat_data' = [chat_data EXCEPT ![r] = chats[f.chat_id]]
                   /\ pc' = [pc EXCEPT ![r] = "ready"]
                   /\ UNCHANGED <<chats, nextId>>
    /\ UNCHANGED <<backend, messages, src, produced, events, full_bot_response, lastOp, envEvents>>

\* The forms a caller can submit.  A document is drawn only for a request
\* that names no session: the handler never looks at it otherwise.
Forms(r) ==
    { f \in [user_id : Users \cup {NoUser}, chat_id : Ids \cup {NoId},
             question : {QuestionOf(r), <<>>}, pdf_file : Docs] :
        f.chat_id # NoId => f.pdf_file = "absent" }

(***************************************************************************)
(* The response generator: handle_chat.generate_response driving           *)
(* get_gemini_response_stream                                              *)
(***************************************************************************)
\* First next() on the generator: get_gemini_response_stream builds the
\* messages from the local chat_data and asks the model for a stream.
OpenStream(r) ==
    /\ pc[r] = "ready"
    /\ pc' = [pc EXCEPT ![r] = "streaming"]
    /\ src' = [src EXCEPT ![r] = "open"]
    /\ messages' = [messages EXCEPT ![r] =
                       Assemble(chat_data[r].pdf_text, chat_data[r].history, form[r].question)]
    /\ UNCHANGED <<backend, chats, nextId, form, status, chat_id, chat_data,
                   produced, events, full_bot_response, lastOp, envEvents>>

\* Number of chunks pulled from all token streams so far.
RECURSIVE SumLen(_, _)
SumLen(f, S) == IF S = {} THEN 0 ELSE LET x == CHOOSE x \in S : TRUE IN Len(f[x]) + SumLen(f, S \ {x})
Pulled == SumLen(produced, DOMAIN produced)

\* Whether the model's stream can deliver to request r: generate_response
\* is in its forwarding loop and get_gemini_response_stream has not ended.
\* Its except clause is outside its own loop, so an error ends it.
CanPullAfterError(r) == pc[r] = "streaming" /\ src[r] \in {"open", "failed"}

CanPull(r) == pc[r] = "streaming" /\ src[r] = "open"

\* The events after a chunk with text t arrived: "if chunk.text: yield ...".
ForwardedUnfiltered(evs, t) == Append(evs, TextEvent(t))

Forwarded(evs, t) == IF t = <<>> THEN evs ELSE Append(evs, TextEvent(t))

\* The stream delivers a chunk with text t.  An empty text yields nothing;
\* any other is framed, yielded to the caller, read back by
\* generate_response and added to the accumulator.
StreamChunk(r, t) ==
    /\ CanPull(r)
    /\ Pulled < MaxChunks
    /\ produced' = [produced EXCEPT ![r] = Append(@, t)]
    /\ events' = [events EXCEPT ![r] = Forwarded(@, t)]
    /\ IF events'[r] = events[r]
       THEN UNCHANGED <<pc, full_bot_response>>
       ELSE LET read == ReadChunk(Frame(KeyText, t))
            IN  /\ full_bot_response' = [full_bot_response EXCEPT ![r] = Accumulate(@, read)]
                /\ pc' = [pc EXCEPT ![r] = IF LeavesLoop(backend, read) THEN "commit" ELSE @]
    /\ UNCHANGED <<backend, chats, nextId, form, status, chat_id, chat_data,
                   messages, src, lastOp, envEvents>>

\* The model raises: get_gemini_response_stream catches it, yields one error
\* event and ends; generate_response forwards the event and reads it back.
StreamError(r, m) ==
    /\ CanPull(r)
    /\ src' = [src EXCEPT ![r] = "failed"]
    /\ LET read == ReadChunk(Frame(KeyError, m))
       IN  /\ events' = [events EXCEPT ![r] = Append(@, ErrorEvent(m))]
           /\ full_bot_response' = [full_bot_response EXCEPT ![r] = Accumulate(@, read)]
           /\ pc' = [pc EXCEPT ![r] = IF LeavesLoop(backend, read) THEN "commit" ELSE @]
    /\ UNCHANGED <<backend, chats, nextId, form, status, chat_id, chat_data,
                   messages, produced, lastOp, envEvents>>

\* get_gemini_response_stream is exhausted: the model's stream ended, or the
\* error event was its last chunk.  The forwarding loop ends.
StreamEnd(r) ==
    /\ pc[r] = "streaming"
    /\ src[r] \in {"open", "failed"}
    /\ src' = [src EXCEPT ![r] = IF @ = "open" THEN "ended" ELSE @]
    /\ pc' = [pc EXCEPT ![r] = "commit"]
    /\ UNCHANGED <<backend, chats, nextId, form, status, chat_id, chat_data,
                   messages, produced, events, full_bot_response, lastOp, envEvents>>

\* The turn is written to the store.
Commit(r) ==
    /\ pc[r] = "commit"
    /\ LET turn == Turn(form[r].question, full_bot_response[r])
       IN  /\ chats' = CommitStore(backend, chats, chat_id[r], chat_data[r], turn)
           /\ chat_data' = [chat_data EXCEPT ![r] =
                               IF backend = "file"
                               THEN [@ EXCEPT !.history = Append(@, turn)]
                               ELSE @]
    /\ pc' = [pc EXCEPT ![r] = "terminal"]
    /\ UNCHANGED <<backend, nextId, form, status, chat_id, messages, src,
                   produced, events, full_bot_response, lastOp, envEvents>>

\* The write raises (update_one, or open / json.dump): nothing in the
\* generator catches it, so the generator ends there.
CommitRaises(r) ==
    /\ pc[r] = "commit"
    /\ envEvents < MaxEnvEvents
    /\ envEvents' = envEvents + 1
    /\ pc' = [pc EXCEPT ![r] = "crashed"]
    /\ chat_data' = [chat_data EXCEPT ![r] =
                        IF backend = "file"
                        THEN [@ EXCEPT !.history =
                                 Append(@, Turn(form[r].question, full_bot_response[r]))]
                        ELSE @]
    /\ UNCHANGED <<backend, chats, nextId, form, status, chat_id, messages, src,
                   produced, events, full_bot_response, lastOp>>

\* yield of the end_of_stream event, after which the generator returns.
EndOfStream(r) ==
    /\ pc[r] = "terminal"
    /\ events' = [events EXCEPT ![r] = Append(@, EndEvent(chat_id[r]))]
    /\ pc' = [pc EXCEPT ![r] = "done"]
    /\ UNCHANGED <<backend, chats, nextId, form, status, chat_id, chat_data,
                   messages, src, produced, full_bot_response, lastOp, envEvents>>

\* The caller goes away: the generator is closed where it is suspended,
\* before its first next() or at the yield of a forwarded chunk.
\* GeneratorExit is caught by neither except clause.
Disconnect(r) ==
    /\ \/ pc[r] = "ready"
       \/ pc[r] = "streaming" /\ events[r] # <<>>
    /\ pc' = [pc EXCEPT ![r] = "closed"]
    /\ envEvents < MaxEnvEvents
    /\ envEvents' = envEvents + 1
    /\ UNCHANGED <<backend, chats, nextId, form, status, chat_id, chat_data,
                   messages, src, produced, events, full_bot_response, lastOp>>

(***************************************************************************)
(* /api/chat/<chat_id> and DELETE /api/chats                               *)
(***************************************************************************)
\* GET /api/chat/<chat_id>, sent by principal p.  Neither variant takes or
\* checks a user id here.
GetSingleChat(p, id) ==
    /\ envEvents < MaxEnvEvents
    /\ envEvents' = envEvents + 1
    /\ lastOp' = IF id \in DOMAIN chats
                 THEN [op |-> "get", caller |-> p, chat_id |-> id, status |-> 200,
                       body |-> chats[id]]
                 ELSE [op |-> "get", caller |-> p, chat_id |-> id, status |-> 404,
                       body |-> NoChat]
    /\ UNCHANGED <<backend, chats, nextId, pc, form, status, chat_id, chat_data,
                   messages, src, produced, events, full_bot_response>>

\* DELETE /api/chat/<chat_id>, sent by principal p.
DeleteSingleChat(p, id) ==
    /\ envEvents < MaxEnvEvents
    /\ envEvents' = envEvents + 1
    /\ lastOp' = IF id \in DOMAIN chats
                 THEN [op |-> "delete", caller |-> p, chat_id |-> id, status |-> 200,
                       body |-> NoChat]
                 ELSE [op |-> "delete", caller |-> p, chat_id |-> id, status |-> 404,
                       body |-> NoChat]
    /\ chats' = Without(chats, {id})
    /\ UNCHANGED <<backend, nextId, pc, form, status, chat_id, chat_data,
                   messages, src, produced, events, full_bot_response>>

\* The sessions DELETE /api/chats removes: those of user_id in app.py,
\* every session file in app safe.py.
DeletedByAll(b, store, u) ==
    IF b = "mongo" THEN { i \in DOMAIN store : store[i].user_id = u } ELSE DOMAIN store

\* DELETE /api/chats with user_id u.
DeleteAllChats(u) ==
    /\ envEvents < MaxEnvEvents
    /\ envEvents' = envEvents + 1
    /\ chats' = Without(chats, DeletedByAll(backend, chats, u))
    /\ lastOp' = [op |-> "delete_all", caller |-> u, chat_id |-> NoId, status |-> 200,
                  body |-> NoChat]
    /\ UNCHANGED <<backend, nextId, pc, form, status, chat_id, chat_data,
                   messages, src, produced, events, full_bot_response>>

(***************************************************************************)
(* Specification                                                           *)
(***************************************************************************)
Next ==
    \/ \E r \in Requests : \E f \in Forms(r) : HandleChat(r, f)
    \/ \E r \in Requests : OpenStream(r)
    \/ \E r \in Requests, t \in Fragments : StreamChunk(r, t)
    \/ \E r \in Requests, m \in ErrorTexts : StreamError(r, m)
    \/ \E r \in Requests : StreamEnd(r)
    \/ \E r \in Requests : Commit(r)
    \/ \E r \in Requests : CommitRaises(r)
    \/ \E r \in Requests : EndOfStream(r)
    \/ \E r \in Requests : Disconnect(r)
    \/ \E p \in Users, id \in Ids : GetSingleChat(p, id)
    \/ \E p \in Users, id \in Ids : DeleteSingleChat(p, id)
    \/ \E u \in Users : DeleteAllChats(u)

Spec == Init /\ [][Next]_vars

\* The variant of src/app.py alone, and the one of src/templates/app safe.py.
InitMongo == Init /\ backend = "mongo"
InitFile == Init /\ backend = "file"

SpecMongo == InitMongo /\ [][Next]_vars
SpecFile == InitFile /\ [][Next]_vars

\* The prompt assembly on its own: the store starts with one session of u1
\* that holds up to MaxHistory committed turns, and requests are answered and
\* open their stream, which builds the messages.
StoredTurns ==
    { Turn(q, a) : q \in {QuestionOf("r1"), <<"a">>}, a \in {<<>>, <<"H", Quote>>} }

Histories == UNION { [1..n -> StoredTurns] : n \in 0..MaxHistory }

InitAssemble ==
    /\ backend \in Backends
    /\ \E h \in Histories :
          chats = With(<<>>, 1, [NewChat(backend, "u1", QuestionOf("r1"), DocText)
                                    EXCEPT !.history = h])
    /\ nextId = 2
    /\ pc = [r \in Requests |-> "idle"]
    /\ form = [r \in Requests |-> NoForm]
    /\ status = [r \in Requests |-> 0]
    /\ chat_id = [r \in Requests |-> NoId]
    /\ chat_data = [r \in Requests |-> NoChat]
    /\ messages = [r \in Requests |-> <<>>]
    /\ src = [r \in Requests |-> "closed"]
    /\ produced = [r \in Requests |-> <<>>]
    /\ events = [r \in Requests |-> <<>>]
    /\ full_bot_response = [r \in Requests |-> <<>>]
    /\ lastOp = NoOp
    /\ envEvents = 0

NextAssemble ==
    \/ \E r \in Requests : \E f \in Forms(r) : HandleChat(r, f)
    \/ \E r \in Requests : OpenStream(r)

SpecAssemble == InitAssemble /\ [][NextAssemble]_vars

\* Three requests and no other operation: long enough for a request to start
\* after two overlapping ones have both finished.
InitThree ==
    /\ backend \in Backends
    /\ chats = <<>>
    /\ nextId = 1
    /\ pc = [r \in Slots |-> "idle"]
    /\ form = [r \in Slots |-> NoForm]
    /\ status = [r \in Slots |-> 0]
    /\ chat_id = [r \in Slots |-> NoId]
    /\ chat_data = [r \in Slots |-> NoChat]
    /\ messages = [r \in Slots |-> <<>>]
    /\ src = [r \in Slots |-> "closed"]
    /\ produced = [r \in Slots |-> <<>>]
    /\ events = [r \in Slots |-> <<>>]
    /\ full_bot_response = [r \in Slots |-> <<>>]
    /\ lastOp = NoOp
    /\ envEvents = 0

\* The forms of SpecThree: u1 asks a question, with a readable document or
\* none when starting a conversation.
FormsThree(r) ==
    { f \in Forms(r) :
        f.user_id = "u1" /\ f.question # <<>> /\ f.pdf_file \in {"absent", "ok"} }

NextThree ==
    \/ \E r \in Slots : \E f \in FormsThree(r) : HandleChat(r, f)
    \/ \E r \in Slots : OpenStream(r)
    \/ \E r \in Slots, t \in Fragments : StreamChunk(r, t)
    \/ \E r \in Slots, m \in ErrorTexts : StreamError(r, m)
    \/ \E r \in Slots : StreamEnd(r)
    \/ \E r \in Slots : Commit(r)
    \/ \E r \in Slots : EndOfStream(r)

SpecThree == InitThree /\ [][NextThree]_vars

(***************************************************************************)
(* Vocabulary of the properties                                            *)
(***************************************************************************)
\* Request r was answered with the streaming Response: a session was
\* resolved or created for it.
ReachedStreaming(r) == pc[r] \notin {"idle", "rejected"}

\* The response generator of r has run to its end, by returning or by raising,
\* without the caller closing it.
GeneratorEnded(r) == pc[r] \in {"done", "crashed"}

KindsOf(evs) == [i \in 1..Len(evs) |-> evs[i].kind]

IsText(e) == e.kind = "text"

RECURSIVE TextsOf(_)
TextsOf(evs) ==
    IF evs = <<>> THEN <<>>
    ELSE (IF IsText(Head(evs)) THEN <<Head(evs).text>> ELSE <<>>) \o TextsOf(Tail(evs))

NonEmpty(t) == t # <<>>

CountKind(evs, k) == Cardinality({ i \in 1..Len(evs) : evs[i].kind = k })

\* The step is the store write of r's commit, taken without raising.
CommitStep(r) == pc[r] = "commit" /\ pc'[r] = "terminal"

\* The step is handle_chat answering r's form.
AnswerStep(r) == pc[r] = "idle" /\ pc'[r] # "idle"

TurnOf(r) == Turn(form[r].question, full_bot_response[r])

\* Request r created session id.
Created(r, id) == ReachedStreaming(r) /\ form[r].chat_id = NoId /\ chat_id[r] = id

\* The owner of a session: the user whose request created it.
OwnerOf(id) ==
    IF \E r \in Requests : Created(r, id)
    THEN form[CHOOSE r \in Requests : Created(r, id)].user_id
    ELSE NoUser

(***************************************************************************)
(* C1 .. C10                                                               *)
(***************************************************************************)
\* C1: once the response generator of a request that reached the streaming
\* stage has ended, its event stream holds exactly one end_of_stream event
\* and that event is the last one.
C1_OneTerminalEventLast ==
    \A r \in Requests :
        GeneratorEnded(r) =>
            /\ CountKind(events[r], "end_of_stream") = 1
            /\ events[r][Len(events[r])].kind = "end_of_stream"

\* C2: the commit of a request whose token source completed or failed
\* appends exactly one turn, with the submitted question as user text, to the
\* history its session has in the store.
C2_CommitAppendsOneTurn ==
    [][\A r \in Requests :
          CommitStep(r) =>
              /\ chat_id[r] \in DOMAIN chats
              /\ chat_id[r] \in DOMAIN chats'
              /\ LET h == chats[chat_id[r]].history
                     g == chats'[chat_id[r]].history
                 IN  /\ Len(g) = Len(h) + 1
                     /\ IsPrefix(h, g)
                     /\ g[Len(g)].user = form[r].question]_vars

\* C3: the assistant text of the turn a request commits is the in-order
\* concatenation of the texts forwarded to the caller as text events.
C3_CommittedTextIsForwardedText ==
    [][\A r \in Requests :
          (CommitStep(r) /\ chat_id[r] \in DOMAIN chats') =>
              LET h == chats'[chat_id[r]].history
              IN  /\ Len(h) > 0
                  /\ h[Len(h)].bot_markdown = Concat(TextsOf(events[r]))]_vars

C6_OverlappingCommitsKeepBothTurns ==
    [][\A r \in Requests :
          (/\ CommitStep(r)
           /\ chat_id[r] \in DOMAIN chats
           /\ Len(chat_data[r].history) < Len(chats[chat_id[r]].history)) =>
              /\ chat_id[r] \in DOMAIN chats'
              /\ chats'[chat_id[r]].history = Append(chats[chat_id[r]].history, TurnOf(r))]_vars

\* C7: a request naming a session that does not exist, or that another user
\* owns, is rejected: no stream, no event, no change to the store.
C7_ForeignOrUnknownSessionRejected ==
    [][\A r \in Requests :
          (/\ AnswerStep(r)
           /\ form'[r].chat_id # NoId
           /\ \/ form'[r].chat_id \notin DOMAIN chats
              \/ OwnerOf(form'[r].chat_id) # form'[r].user_id) =>
              /\ pc'[r] = "rejected"
              /\ status'[r] # 200
              /\ events'[r] = <<>>
              /\ chats' = chats]_vars

\* C8: a session is fetched or deleted only by its owner, and only its owner
\* gets a stream for it.
C8_OwnerOnlyAccess ==
    [][/\ (/\ lastOp' # lastOp
           /\ lastOp'.op \in {"get", "delete"}
           /\ lastOp'.status = 200) =>
              OwnerOf(lastOp'.chat_id) = lastOp'.caller
       /\ \A r \in Requests :
             (AnswerStep(r) /\ pc'[r] = "ready" /\ form'[r].chat_id # NoId) =>
                 OwnerOf(form'[r].chat_id) = form'[r].user_id]_vars

\* The form starts a conversation without a document handle_chat can read.
NewWithoutDocument(f) ==
    /\ f.chat_id = NoId
    /\ f.pdf_file \in {"absent", "empty", "corrupt"}

\* C9: a request that starts a conversation without a readable document is
\* rejected, leaves the set of stored sessions as it was, and never streams.
C9_NoDocumentNoSession ==
    [][\A r \in Requests :
          /\ (AnswerStep(r) /\ NewWithoutDocument(form'[r])) =>
                /\ pc'[r] = "rejected"
                /\ status'[r] # 200
                /\ chats' = chats
                /\ nextId' = nextId
          /\ (pc[r] = "rejected" /\ NewWithoutDocument(form[r])) =>
                /\ pc'[r] = "rejected"
                /\ events'[r] = <<>>
                /\ src'[r] = "closed"]_vars

\* With a session in the store, a request of a logged-in user with a
\* question and an unreadable document was rejected.
C9_Witness ==
    \E r \in Requests :
        /\ pc[r] = "rejected"
        /\ form[r].user_id # NoUser
        /\ form[r].question # <<>>
        /\ form[r].chat_id = NoId
        /\ form[r].pdf_file = "corrupt"
        /\ status[r] = 500
        /\ DOMAIN chats # {}

\* C10: in every step, the history of every session that exists before and
\* after the step only grows at its end.
C10_HistoryAppendOnly ==
    [][\A id \in DOMAIN chats \cap DOMAIN chats' :
          IsPrefix(chats[id].history, chats'[id].history)]_vars

(***************************************************************************)
(* C11 .. C19                                                              *)
(***************************************************************************)
\* The commit write of request r has returned.
Committed(r) == pc[r] \in {"terminal", "done"}

\* Request q works on the session request r works on.
SameSession(q, r) == q # r /\ ReachedStreaming(q) /\ chat_id[q] = chat_id[r]

\* Request q had committed its turn when r resolved the session: the history
\* r read holds q's turn.  Only meaningful before r's own commit.
CommittedBefore(q, r) ==
    /\ SameSession(q, r)
    /\ Committed(q)
    /\ \E i \in 1..Len(chat_data[r].history) : chat_data[r].history[i] = TurnOf(q)

\* The requests on r's session ran one after another up to r: each of the
\* others had committed before r resolved the session.
RanOneAfterAnother(r) == \A q \in Requests : SameSession(q, r) => CommittedBefore(q, r)

UserTexts(h) == [i \in 1..Len(h) |-> h[i].user]

\* C11: when the N-th of N requests that ran one after another on a session
\* commits its turn, the stored history has exactly N turns, and their user
\* texts are the questions of the N requests in the order of submission.
C11_SequentialTurnsInOrder ==
    [][\A r \in Requests :
          (/\ CommitStep(r)
           /\ RanOneAfterAnother(r)
           /\ chat_id[r] \in DOMAIN chats') =>
              LET prior == { q \in Requests : SameSession(q, r) }
                  h == chats'[chat_id[r]].history
              IN  /\ Len(h) = Cardinality(prior) + 1
                  /\ \A q \in prior : Before(q, r) /\ h[1].user = form[q].question
                  /\ h[Len(h)].user = form[r].question]_vars

\* Two requests ran one after another on one session and the session holds
\* their two questions in order.
C11_Witness ==
    \E id \in DOMAIN chats :
        /\ \A r \in Requests : pc[r] = "done" /\ chat_id[r] = id
        /\ UserTexts(chats[id].history) = <<QuestionOf("r1"), QuestionOf("r2")>>

\* What a session is apart from its history.
Identity(c) == [user_id |-> c.user_id, title |-> c.title, pdf_text |-> c.pdf_text]

\* What handle_chat stored of the session when request r created it.
CreatedAs(r) ==
    Identity(NewChat(backend, form[r].user_id, form[r].question,
                     ExtractPdfText(form[r].pdf_file).text))

\* C12: no step changes the document text, the owner or the title of a
\* session that exists before and after it, and a session a commit writes
\* has the document text, the owner and the title it was created with.
C12_DocumentTextSetOnce ==
    [][/\ \A id \in DOMAIN chats \cap DOMAIN chats' :
             Identity(chats'[id]) = Identity(chats[id])
       /\ \A r \in Requests :
             (CommitStep(r) /\ chat_id[r] \in DOMAIN chats') =>
                 \A q \in Requests :
                     Created(q, chat_id[r]) => Identity(chats'[chat_id[r]]) = CreatedAs(q)]_vars

\* A request other than the creator has committed a turn to a session, which
\* still has the creator's document text and title.
C12_Witness ==
    \E id \in DOMAIN chats :
        /\ Created("r1", id)
        /\ pc["r2"] = "done" /\ chat_id["r2"] = id
        /\ \E i \in 1..Len(chats[id].history) : chats[id].history[i].user = QuestionOf("r2")
        /\ chats[id].pdf_text = DocText
        /\ chats[id].title = Title(backend, QuestionOf("r1"))

\* The step is r's first next() on the generator, which assembles the prompt.
AssembleStep(r) == pc[r] = "ready" /\ pc'[r] = "streaming"

\* C13: the prompt assembled from a document text, a history of N turns and a
\* question is 2N+2 messages: a user message carrying the document text, then
\* for each turn in order a user message with its user text and a model
\* message with its assistant text, then a user message with the question.
\* Every message is fixed by the three inputs, so equal inputs give equal
\* prompts.
C13_PromptAssembly ==
    [][\A r \in Requests :
          AssembleStep(r) =>
              LET h == chat_data[r].history
                  n == Len(h)
                  m == messages'[r]
              IN  /\ Len(m) = 2 * n + 2
                  /\ m[1] = [role |-> "user",
                             parts |-> DocHeader \o chat_data[r].pdf_text \o DocFooter]
                  /\ \A i \in 1..n :
                        /\ m[2 * i] = [role |-> "user", parts |-> h[i].user]
                        /\ m[2 * i + 1] = [role |-> "model", parts |-> h[i].bot_markdown]
                  /\ m[2 * n + 2] = [role |-> "user", parts |-> form[r].question]]_vars

\* A prompt was assembled from a history of MaxHistory turns of which the
\* first and the last differ.
C13_Witness ==
    \E r \in Requests :
        /\ pc[r] = "streaming"
        /\ Len(chat_data[r].history) = MaxHistory
        /\ chat_data[r].history[1] # chat_data[r].history[MaxHistory]
        /\ Len(messages[r]) = 2 * MaxHistory + 2

\* The commit write of request r raised.
CommitFailed(r) == pc[r] = "crashed"

\* C14: a request whose commit write failed has still delivered the
\* end_of_stream event.
C14_CommitFailureStillEndsStream ==
    \A r \in Requests :
        CommitFailed(r) => \E i \in 1..Len(events[r]) : events[r][i].kind = "end_of_stream"

\* The step is the caller of r going away while r is in its forwarding loop
\* and the token stream has not ended.
DisconnectStep(r) == pc[r] = "streaming" /\ src[r] = "open" /\ pc'[r] = "closed"

\* C15: when the caller disconnects during streaming, a turn with the
\* submitted question is appended to the history of the request's session.
C15_DisconnectStillCommits ==
    [][\A r \in Requests :
          (DisconnectStep(r) /\ chat_id[r] \in DOMAIN chats) =>
              /\ chat_id[r] \in DOMAIN chats'
              /\ LET h == chats[chat_id[r]].history
                     g == chats'[chat_id[r]].history
                 IN  /\ Len(g) = Len(h) + 1
                     /\ g[Len(g)].user = form[r].question
                     /\ IsPrefix(g[Len(g)].bot_markdown, Concat(TextsOf(events[r])))]_vars

\* The history h holds the turn t.
HoldsTurn(h, t) == \E i \in 1..Len(h) : h[i] = t

\* C16: when the commit write of a request has returned, so that the next
\* thing the generator does is emit the end_of_stream event carrying the
\* request's chat_id, the session of that id exists in the store and its
\* history holds the request's turn.
C16_CommitPrecedesTerminalEvent ==
    [][\A r \in Requests :
          CommitStep(r) =>
              /\ chat_id[r] \in DOMAIN chats'
              /\ HoldsTurn(chats'[chat_id[r]].history, TurnOf(r))]_vars

\* Session id was created and has been deleted: ids are handed out in order
\* and a session is stored when its id is.
Deleted(id) == id < nextId /\ id \notin DOMAIN chats

\* C17: no step stores a session under the id of a deleted session.
C17_DeletionIrreversible ==
    [][\A id \in Ids : Deleted(id) => id \notin DOMAIN chats']_vars

\* The step is handle_chat resolving an existing session for request r.
ResolveStep(r) == pc[r] = "idle" /\ pc'[r] = "ready" /\ form'[r].chat_id # NoId

\* Request q has emitted its terminal event for session id.
FinishedOn(q, id) == pc[q] = "done" /\ chat_id[q] = id

\* C18: a request on an existing session reads the stored history when it
\* resolves the session, and that history holds the turn of every request
\* that has emitted its terminal event for the session; what the request
\* read is not changed by the commits of others; and its prompt carries
\* exactly the turns it read, in order.
C18_PromptFromHistoryAtResolution ==
    [][\A r \in DOMAIN pc :
          /\ ResolveStep(r) =>
                /\ chat_data'[r].history = chats[form'[r].chat_id].history
                /\ \A q \in DOMAIN pc :
                      FinishedOn(q, form'[r].chat_id) =>
                          HoldsTurn(chat_data'[r].history, TurnOf(q))
          /\ (pc[r] = "ready" /\ pc'[r] = "ready") => chat_data'[r] = chat_data[r]
          /\ AssembleStep(r) =>
                LET h == chat_data[r].history
                    m == messages'[r]
                IN  /\ Len(m) = 2 * Len(h) + 2
                    /\ \A i \in 1..Len(h) :
                          /\ m[2 * i].parts = h[i].user
                          /\ m[2 * i + 1].parts = h[i].bot_markdown]_vars

\* The step is DELETE /api/chats answering.
DeleteAllStep == lastOp' # lastOp /\ lastOp'.op = "delete_all"

\* C19: delete-all for an owner removes every session of that owner and
\* leaves every session of every other owner as it was.
C19_DeleteAllOnlyOwnSessions ==
    [][DeleteAllStep =>
          \A id \in DOMAIN chats :
              IF OwnerOf(id) = lastOp'.caller
              THEN id \notin DOMAIN chats'
              ELSE id \in DOMAIN chats' /\ chats'[id] = chats[id]]_vars

====
